---- MODULE Spec2Model ----
(***************************************************************************)
(* The plugin subsystem of shadowcore: the loader of                       *)
(* src/middleware/pluginLoader.js (load, validate, toggle, delete,         *)
(* upload, route binding) and the host of src/unnamed/part_000 (the        *)
(* middleware stack and the startup sequence).                             *)
(*                                                                         *)
(* JavaScript values are written as strings ("undefined", "''", "[]",      *)
(* ...); a version is a tuple of one-character strings so that the         *)
(* version regular expression is computed, not assumed.                    *)
(***************************************************************************)
EXTENDS Naturals, Sequences, FiniteSets, TLC

\* phase, scan: the position of startServer and of the directory scan;
\* plugins: global.plugins; db: the rows of the plugins table; files: the
\* source files <id>.plugin.js of the plugins directory; dirs: the
\* directories archives were extracted to in it; temp: the scratch
\* directories that exist; stack: the layers of the express app.
\* last, input and dbFailed record history: the latest operation and what
\* it was handed, and whether a persistence call has failed so far.
\* now: the value Date.now() returns; requests: the Map of one rateLimit
\* middleware, from client address to the times it holds; admitted: the
\* times of the requests it passed on, per address; reply: what it did
\* with the latest request.
\* flight: the calls of togglePlugin, deletePlugin and uploadPlugin that
\* are followed from one await to the next, each with its position and
\* the record it holds; gen: which object the registry holds for the
\* identifier of those calls (records are compared by identity in the
\* code); life: the init and destroy invocations made so far.
VARIABLES phase, scan, plugins, db, files, stack, last,
          dirs, temp, input, dbFailed,
          now, requests, admitted, reply,
          flight, gen, life

rateVars == <<now, requests, admitted, reply>>

raceVars == <<flight, gen, life>>

vars == <<phase, scan, plugins, db, files, stack, last,
          dirs, temp, input, dbFailed, now, requests, admitted, reply,
          flight, gen, life>>

----------------------------------------------------------------------------
(* JavaScript values *)

\* The values for which `!v` is true.
Falsy == {"undefined", "null", "''", "0", "false"}

Truthy(v) == v \notin Falsy

\* Array.isArray(v)
IsArray(v) == v \in {"[]", "['other-plugin']", "[ping]", "[ping,admin,stub,me,ops]"}

\* typeof v === 'function'
IsFunction(v) ==
    v \in {"fn:ok", "fn:throws", "fn:hints", "fn:noop", "fn:late",
           "fn:rejects", "fn:absHints", "fn:upHints"}

\* typeof v === 'object' (null included, as in JavaScript)
IsObjectType(v) == v \in {"null", "{}", "{descriptor}"} \/ IsArray(v)

Digits == {"0", "1", "2", "3", "4", "5", "6", "7", "8", "9"}

\* /^\d+\.\d+\.\d+$/.test(v), v a tuple of characters
versionRegex(v) ==
    \E i, j \in 1..Len(v) :
        /\ 1 < i /\ i + 1 < j /\ j < Len(v)
        /\ v[i] = "." /\ v[j] = "."
        /\ \A k \in (1..Len(v)) \ {i, j} : v[k] \in Digits

----------------------------------------------------------------------------
(* Identifiers and file names *)

ExtPluginJs == <<".", "p", "l", "u", "g", "i", "n", ".", "j", "s">>

IdHello == <<"h", "i">>
IdOther == <<"o", "k">>

Ids == {IdHello, IdOther}

\* The order in which fs.readdir lists the plugins directory.
ScanOrder == <<IdHello, IdOther>>

EndsWith(s, suffix) ==
    /\ Len(s) >= Len(suffix)
    /\ SubSeq(s, Len(s) - Len(suffix) + 1, Len(s)) = suffix

\* path.basename(p, ext): ext is stripped when p ends with it and is longer.
Basename(p, ext) ==
    IF Len(p) > Len(ext) /\ EndsWith(p, ext)
    THEN SubSeq(p, 1, Len(p) - Len(ext))
    ELSE p

\* The file name of a plugin source in the plugins directory.
PluginFile(id) == id \o ExtPluginJs

----------------------------------------------------------------------------
(* Plugin sources: what a plugin file does when it is evaluated *)

V100 == <<"1", ".", "0", ".", "0">>
V210 == <<"2", ".", "1", ".", "0">>
V10  == <<"1", ".", "0">>

\* A version is [t |-> its JavaScript value kind, s |-> its characters].
VString(chars) == [t |-> IF chars = <<>> THEN "''" ELSE "string", s |-> chars]
VUndefined == [t |-> "undefined", s |-> <<>>]

\* The descriptor fields read by the loader; a field the source does not
\* set is "undefined".
EmptyDesc ==
    [name |-> "undefined", version |-> VUndefined, config |-> "undefined",
     dependencies |-> "undefined", routes |-> "undefined",
     init |-> "undefined", destroy |-> "undefined"]

HelloDesc ==
    [EmptyDesc EXCEPT !.name = "Hello", !.version = VString(V100),
                      !.routes = "[ping]"]

ToolsDesc ==
    [name |-> "Tools", version |-> VString(V210), config |-> "{greeting}",
     dependencies |-> "['other-plugin']", routes |-> "[ping,admin,stub,me,ops]",
     init |-> "fn:hints", destroy |-> "fn:throws"]

\* A source: the module it requires (if any) and whether it catches the
\* error of require, what it leaves in module.exports, whether it sets its
\* fields on `exports` instead, and the descriptor fields it writes.
Source(req, catches, moduleExports, exportsSet, desc) ==
    [req |-> req, catches |-> catches, moduleExports |-> moduleExports,
     exportsSet |-> exportsSet, desc |-> desc]

Exporting(desc) == Source("none", FALSE, "{descriptor}", FALSE, desc)

SrcHello        == Exporting(HelloDesc)
SrcTools        == Exporting(ToolsDesc)
SrcInitThrows   == Exporting([HelloDesc EXCEPT !.init = "fn:throws"])
SrcNoName       == Exporting([HelloDesc EXCEPT !.name = "''"])
SrcNoVersion    == Exporting([HelloDesc EXCEPT !.version = VUndefined])
SrcBadVersion   == Exporting([HelloDesc EXCEPT !.version = VString(V10)])
SrcDepsString   == Exporting([HelloDesc EXCEPT !.dependencies = "'other'"])
SrcDepsZero     == Exporting([HelloDesc EXCEPT !.dependencies = "0"])
SrcRoutesObject == Exporting([HelloDesc EXCEPT !.routes = "{}"])
SrcRequireFs    == Source("fs", FALSE, "{descriptor}", FALSE, HelloDesc)
SrcRequireCaught == Source("fs", TRUE, "{descriptor}", FALSE, HelloDesc)
SrcNoExport     == Source("none", FALSE, "{}", FALSE, EmptyDesc)
SrcExportsOnly  == Source("none", FALSE, "{}", TRUE, HelloDesc)
SrcFunction     == Source("none", FALSE, "fn:ok", FALSE, EmptyDesc)
SrcNull         == Source("none", FALSE, "null", FALSE, EmptyDesc)
SrcAbsHints     == Exporting([HelloDesc EXCEPT !.init = "fn:absHints"])
SrcUpHints      == Exporting([HelloDesc EXCEPT !.init = "fn:upHints"])
SrcStatic       == Exporting([HelloDesc EXCEPT !.init = "fn:hints"])

PluginSources ==
    {SrcHello, SrcTools, SrcInitThrows, SrcNoName, SrcNoVersion,
     SrcBadVersion, SrcDepsString, SrcDepsZero, SrcRoutesObject,
     SrcRequireFs, SrcRequireCaught, SrcNoExport, SrcExportsOnly,
     SrcFunction, SrcNull}

----------------------------------------------------------------------------
(* loadPluginFromFile *)

\* safeRequire: the module names it refuses.
blocked == {"child_process", "fs", "os", "cluster", "vm", "worker_threads"}

\* safeRequire(moduleName): "throws" for a refused module name.
safeRequire(moduleName) ==
    IF moduleName \in blocked THEN "throws" ELSE "module"

\* script.runInContext(sandbox): "threw" when an error leaves the script.
\* The error of safeRequire is thrown into the plugin code, which may
\* catch it and carry on.
RunInContext(src) ==
    IF src.req # "none" /\ safeRequire(src.req) = "throws" /\ ~src.catches
    THEN "threw"
    ELSE "done"

\* sandbox.module.exports || sandbox.exports, with the fields it carries.
\* sandbox.module.exports starts as {} and sandbox.exports as another {}.
PluginData(src) ==
    IF Truthy(src.moduleExports)
    THEN [v |-> src.moduleExports,
          d |-> IF src.moduleExports = "{descriptor}" THEN src.desc
                ELSE EmptyDesc]
    ELSE [v |-> "{}",
          d |-> IF src.exportsSet THEN src.desc ELSE EmptyDesc]

\* validatePlugin without its check of the routes field.
validatePlugin_NoRoutesCheck(d) ==
    IF ~Truthy(d.name) THEN "missing required field"
    ELSE IF ~Truthy(d.version.t) THEN "missing required field"
    ELSE IF ~versionRegex(d.version.s) THEN "invalid version format"
    ELSE IF Truthy(d.dependencies) /\ ~IsArray(d.dependencies)
         THEN "dependencies must be an array"
    ELSE ""

\* validatePlugin: "" when it returns, else the error it throws.
validatePlugin(d) ==
    IF ~Truthy(d.name) THEN "missing required field"
    ELSE IF ~Truthy(d.version.t) THEN "missing required field"
    ELSE IF ~versionRegex(d.version.s) THEN "invalid version format"
    ELSE IF Truthy(d.dependencies) /\ ~IsArray(d.dependencies)
         THEN "dependencies must be an array"
    ELSE IF Truthy(d.routes) /\ ~IsArray(d.routes)
         THEN "routes must be an array"
    ELSE ""

\* v || fallback
OrElse(v, fallback) == IF Truthy(v) THEN v ELSE fallback

\* The plugin instance built from the exported descriptor.
PluginInstance(id, d) ==
    [id |-> id,
     name |-> OrElse(d.name, "<pluginId>"),
     version |-> IF Truthy(d.version.t) THEN d.version.s ELSE V100,
     enabled |-> TRUE,
     config |-> OrElse(d.config, "{}"),
     dependencies |-> OrElse(d.dependencies, "[]"),
     routes |-> OrElse(d.routes, "[]"),
     init |-> OrElse(d.init, "fn:noop"),
     destroy |-> OrElse(d.destroy, "fn:noop"),
     filePath |-> PluginFile(id),
     staticPath |-> <<>>,
     viewsPath |-> <<>>]

\* A path is the sequence of its segments, as split at "/": an absolute
\* path starts with the empty segment.  <<>> stands for null.
\* path.dirname(filePath): the plugins directory.
PluginsDir == <<"", "app", "plugins">>

\* path.normalize on segments: empty and "." segments are dropped, ".."
\* removes the segment before it; acc is the normalized prefix.
RECURSIVE Normalize(_, _, _)
Normalize(segs, i, acc) ==
    IF i > Len(segs) THEN acc
    ELSE IF segs[i] = "." \/ (segs[i] = "" /\ i > 1)
    THEN Normalize(segs, i + 1, acc)
    ELSE IF segs[i] = ".."
    THEN IF acc = <<"">> THEN Normalize(segs, i + 1, acc)
         ELSE IF acc # <<>> /\ acc[Len(acc)] # ".."
         THEN Normalize(segs, i + 1, SubSeq(acc, 1, Len(acc) - 1))
         ELSE Normalize(segs, i + 1, Append(acc, ".."))
    ELSE Normalize(segs, i + 1, Append(acc, segs[i]))

\* path.resolve(base, p): an absolute p replaces the base.
pathResolve(base, p) ==
    IF p # <<>> /\ p[1] = "" THEN Normalize(p, 1, <<>>)
    ELSE Normalize(base \o p, 1, <<>>)

\* path.join(base, p): the two are concatenated, then normalized.
pathJoin(base, p) == Normalize(base \o p, 1, <<>>)

\* plugin.staticPath = path.join(path.dirname(filePath), hint) when the
\* hint is truthy; the path stays null otherwise.
ResolveHint(hint) == IF hint = <<>> THEN <<>> ELSE pathJoin(PluginsDir, hint)

\* What init returns: the staticPath and viewsPath hints (<<>> for none).
InitResult(init) ==
    IF init = "fn:hints"
    THEN [staticPath |-> <<"public">>, viewsPath |-> <<"views">>]
    ELSE IF init = "fn:absHints"
    THEN [staticPath |-> <<"", "srv", "assets">>, viewsPath |-> <<>>]
    ELSE IF init = "fn:upHints"
    THEN [staticPath |-> <<"..", "shared">>,
          viewsPath |-> <<".", "views", "", "x">>]
    ELSE [staticPath |-> <<>>, viewsPath |-> <<>>]

\* A set that keeps the entry of a key that is already there, and a
\* delete that empties the map.
MapSet_KeepExisting(m, k, v) ==
    [x \in DOMAIN m \cup {k} |-> IF x \in DOMAIN m THEN m[x] ELSE v]
MapDelete_All(m, k) == [x \in {} |-> m[x]]

\* Map.set / Map.delete on a function
MapSet(m, k, v) == [x \in DOMAIN m \cup {k} |-> IF x = k THEN v ELSE m[x]]
MapDelete(m, k) == [x \in DOMAIN m \ {k} |-> m[x]]

\* savePluginToDB: INSERT ... ON CONFLICT (id) DO UPDATE; the update leaves
\* the enabled column alone.  A failing query is logged and swallowed.
savePluginToDB(rows, plugin, dbOk) ==
    IF ~dbOk THEN rows
    ELSE IF plugin.id \in DOMAIN rows
    THEN [rows EXCEPT ![plugin.id] =
            [name |-> plugin.name, version |-> plugin.version,
             enabled |-> @.enabled, config |-> plugin.config,
             dependencies |-> plugin.dependencies, routes |-> plugin.routes]]
    ELSE MapSet(rows, plugin.id,
            [name |-> plugin.name, version |-> plugin.version,
             enabled |-> plugin.enabled, config |-> plugin.config,
             dependencies |-> plugin.dependencies, routes |-> plugin.routes])

\* The outcome of a load that stops with an error: nothing is changed.
LoadFailed(reg, rows, err, calls) ==
    [plugins |-> reg, db |-> rows, ok |-> FALSE, err |-> err,
     calls |-> calls, dbw |-> FALSE]

\* A load that fails, once init has run, when the query of savePluginToDB
\* fails.
loadPluginFromFile_FatalPersist(reg, rows, dir, id, dbOk) ==
    IF id \notin DOMAIN dir THEN LoadFailed(reg, rows, "ENOENT", <<>>)
    ELSE IF RunInContext(dir[id]) = "threw"
    THEN LoadFailed(reg, rows, "module is not allowed", <<>>)
    ELSE LET data == PluginData(dir[id]) IN
    IF ~Truthy(data.v) \/ ~IsObjectType(data.v)
    THEN LoadFailed(reg, rows, "must export an object", <<>>)
    ELSE IF validatePlugin(data.d) # ""
    THEN LoadFailed(reg, rows, validatePlugin(data.d), <<>>)
    ELSE LET plugin == PluginInstance(id, data.d) IN
    IF IsFunction(plugin.init) /\ plugin.init = "fn:throws"
    THEN LoadFailed(reg, rows, "init threw", <<"init">>)
    ELSE IF ~dbOk
    THEN [LoadFailed(reg, rows, "query failed", <<"init">>)
            EXCEPT !.dbw = TRUE]
    ELSE [plugins |-> MapSet(reg, id, plugin),
          db |-> savePluginToDB(rows, plugin, dbOk),
          ok |-> TRUE, err |-> "",
          calls |-> IF IsFunction(plugin.init) THEN <<"init">> ELSE <<>>,
          dbw |-> TRUE]

\* loadPluginFromFile(pluginsDir/<id>.plugin.js) on the registry reg, the
\* rows of the store and the directory dir; dbOk says whether the query of
\* savePluginToDB succeeds.  ok is FALSE when the call returns null.
loadPluginFromFile(reg, rows, dir, id, dbOk) ==
    IF id \notin DOMAIN dir THEN LoadFailed(reg, rows, "ENOENT", <<>>)
    ELSE IF RunInContext(dir[id]) = "threw"
    THEN LoadFailed(reg, rows, "module is not allowed", <<>>)
    ELSE LET data == PluginData(dir[id]) IN
    IF ~Truthy(data.v) \/ ~IsObjectType(data.v)
    THEN LoadFailed(reg, rows, "must export an object", <<>>)
    ELSE IF validatePlugin(data.d) # ""
    THEN LoadFailed(reg, rows, validatePlugin(data.d), <<>>)
    ELSE LET plugin == PluginInstance(id, data.d) IN
    IF IsFunction(plugin.init) /\ plugin.init = "fn:throws"
    THEN LoadFailed(reg, rows, "init threw", <<"init">>)
    ELSE LET hints == IF IsFunction(plugin.init) THEN InitResult(plugin.init)
                      ELSE InitResult("none")
             loaded == [plugin EXCEPT
                          !.staticPath = ResolveHint(hints.staticPath),
                          !.viewsPath = ResolveHint(hints.viewsPath)]
         IN [plugins |-> MapSet(reg, id, loaded),
             db |-> savePluginToDB(rows, loaded, dbOk),
             ok |-> TRUE, err |-> "",
             calls |-> IF IsFunction(plugin.init) THEN <<"init">> ELSE <<>>,
             dbw |-> TRUE]

----------------------------------------------------------------------------
(* The host dispatch table and the route binder *)

Route(method, path, handler, authenticated, admin) ==
    [method |-> method, path |-> path, handler |-> handler,
     authenticated |-> authenticated, admin |-> admin]

NoRoute == Route("", "", "undefined", FALSE, FALSE)

\* The route declarations behind each value of a routes field.
RoutesOf(routes) ==
    IF routes = "[ping]"
    THEN <<Route("GET", "/ping", "fn:ok", FALSE, FALSE)>>
    ELSE IF routes = "[ping,admin,stub,me,ops]"
    THEN <<Route("GET", "/ping", "fn:ok", FALSE, FALSE),
           Route("POST", "/admin", "fn:throws", TRUE, TRUE),
           Route("undefined", "/stub", "undefined", FALSE, FALSE),
           Route("GET", "/me", "fn:late", TRUE, FALSE),
           Route("POST", "/ops", "fn:rejects", FALSE, TRUE)>>
    ELSE <<>>

\* A layer of the express stack, in registration order.
Layer(kind, id, route) == [kind |-> kind, id |-> id, route |-> route]

\* The host's stack without the catch-all 404 handler and the error
\* handler in front of the routes.
HostStack_NoCatchAll ==
    <<Layer("pluginStatic", <<>>, NoRoute), Layer("locals", <<>>, NoRoute)>>

\* The layers registered while the host module is evaluated, before
\* startServer runs: the middleware, then the catch-all 404 handler and
\* the error handler.
HostStack ==
    <<Layer("pluginStatic", <<>>, NoRoute),
      Layer("locals", <<>>, NoRoute),
      Layer("notFound", <<>>, NoRoute),
      Layer("errorHandler", <<>>, NoRoute)>>

\* (route.method || 'GET'), compared case-insensitively by express.
RouteMethod(route) == IF Truthy(route.method) THEN route.method ELSE "GET"

\* The routes of one plugin that registerPluginRoutes binds.
BindingsOf(id, plugin) ==
    IF plugin.enabled /\ Truthy(plugin.routes) /\ IsArray(plugin.routes)
    THEN SelectSeq(
            [i \in 1..Len(RoutesOf(plugin.routes)) |->
                Layer("pluginRoute", id, RoutesOf(plugin.routes)[i])],
            LAMBDA l : IsFunction(l.route.handler))
    ELSE <<>>

RECURSIVE BindFrom(_, _, _)
BindFrom(order, i, reg) ==
    IF i > Len(order) THEN <<>>
    ELSE (IF order[i] \in DOMAIN reg
          THEN BindingsOf(order[i], reg[order[i]]) ELSE <<>>)
         \o BindFrom(order, i + 1, reg)

\* registerPluginRoutes(app): the bindings are appended to the stack, the
\* plugins taken in the order they were inserted into the registry.
registerPluginRoutes(app, reg) == app \o BindFrom(ScanOrder, 1, reg)

\* loadRoutes(): the host's own routes, registered after the plugins'.
loadRoutes(app) == app \o <<Layer("mainRoutes", <<>>, NoRoute)>>

Users == {"none", "user", "admin"}

\* A request to METHOD /api/plugins/{id}{path} by a session user.
Requests(ids) ==
    [method : {"GET", "POST"}, id : ids, path : {"/ping", "/admin"},
     user : Users]

\* Whether a layer answers a request (does not call next).
Answers(layer, req) ==
    \/ layer.kind = "notFound"
    \/ /\ layer.kind = "pluginRoute"
       /\ layer.id = req.id
       /\ layer.route.path = req.path
       /\ RouteMethod(layer.route) = req.method

\* A wrapper that tests the admin gate before the session gate.
Wrapper_AdminFirst(layer, req) ==
    IF layer.route.admin /\ req.user # "admin"
    THEN [status |-> 403, invoked |-> FALSE, escaped |-> FALSE]
    ELSE IF layer.route.authenticated /\ req.user = "none"
    THEN [status |-> 401, invoked |-> FALSE, escaped |-> FALSE]
    ELSE IF layer.route.handler \in {"fn:throws", "fn:rejects"}
    THEN [status |-> 500, invoked |-> TRUE, escaped |-> FALSE]
    ELSE IF layer.route.handler = "fn:late"
    THEN [status |-> 200, invoked |-> TRUE, escaped |-> TRUE]
    ELSE [status |-> 200, invoked |-> TRUE, escaped |-> FALSE]

\* The wrapper bound for a route: the status the client receives, whether
\* the wrapper invoked the plugin's handler and whether an error escaped
\* the wrapper.  A handler that throws or rejects ("fn:throws",
\* "fn:rejects") is answered by the catch block with 500.  A handler that
\* throws after it has sent its response ("fn:late") makes the catch block
\* write to a response that is already sent: res.json throws there, so
\* the wrapper's promise rejects and the client keeps the handler's answer.
Wrapper(layer, req) ==
    IF layer.route.authenticated /\ req.user = "none"
    THEN [status |-> 401, invoked |-> FALSE, escaped |-> FALSE]
    ELSE IF layer.route.admin /\ req.user # "admin"
    THEN [status |-> 403, invoked |-> FALSE, escaped |-> FALSE]
    ELSE IF layer.route.handler \in {"fn:throws", "fn:rejects"}
    THEN [status |-> 500, invoked |-> TRUE, escaped |-> FALSE]
    ELSE IF layer.route.handler = "fn:late"
    THEN [status |-> 200, invoked |-> TRUE, escaped |-> TRUE]
    ELSE [status |-> 200, invoked |-> TRUE, escaped |-> FALSE]

\* express dispatch: the first layer that answers the request.
Dispatch(app, req) ==
    IF \E i \in 1..Len(app) : Answers(app[i], req)
    THEN LET i == CHOOSE k \in 1..Len(app) :
                    /\ Answers(app[k], req)
                    /\ \A m \in 1..(k - 1) : ~Answers(app[m], req)
         IN IF app[i].kind = "notFound"
            THEN [status |-> 404, invoked |-> FALSE, at |-> i]
            ELSE [status |-> Wrapper(app[i], req).status,
                  invoked |-> Wrapper(app[i], req).invoked, at |-> i]
    ELSE [status |-> 404, invoked |-> FALSE, at |-> 0]

----------------------------------------------------------------------------
(* The operations *)

\* What the latest operation did: its name, the identifier it was about,
\* its flag argument, whether it returned normally, the error otherwise,
\* the plugin procedures it called, whether it issued a persistence write,
\* the HTTP status it answered, what loadPluginFromFile returned if it ran
\* ("record", "null", or "" when it did not run), the registry record of
\* the identifier before the operation (was) and, for an enable that
\* directly follows a disable of the same identifier, the record before
\* that disable (pair).
Last(op, id, arg, ok, err, calls, dbw, status, load, was, pair) ==
    [op |-> op, id |-> id, arg |-> arg, ok |-> ok, err |-> err,
     calls |-> calls, dbw |-> dbw, status |-> status, load |-> load,
     was |-> was, pair |-> pair]

\* The same for a request; its flag (arg) is bound, which says whether the stack holds a plugin
\* binding for the request's method and path.
LastRequest(req, r, was, bound) ==
    Last("request", req.id, bound, TRUE, "",
         IF r.invoked THEN <<"handler">> ELSE <<>>, FALSE, r.status, "",
         was, <<>>)

\* The registry record of id as a sequence: <<>> when there is none.
Lookup(reg, id) == IF id \in DOMAIN reg THEN <<reg[id]>> ELSE <<>>

\* The identifiers the operations below are tried on, and those that may
\* have a source file in the plugins directory when the host starts.
OpIds == {IdHello}
BootIds == {IdHello}

\* The calls followed step by step, and a call that has not started.
RaceCalls == {"toggleA", "toggleB", "delete", "upload"}

IdleCall ==
    [pc |-> "idle", arg |-> FALSE, ref |-> "none", rec |-> <<>>,
     ok |-> TRUE, during |-> FALSE]

\* The objects a record of the registry can be: the one the startup scan
\* built and the one the followed upload builds.
Objects == {"boot", "upload"}

\* No init or destroy invoked yet, no record removed by deletePlugin.
NoLife ==
    [last |-> [o \in Objects |-> "none"], deleted |-> {}, late |-> FALSE]

\* The host before startServer: the registry is empty and the plugins
\* directory holds source files for some of the identifiers ids, each one
\* of the sources srcs, and some of the extracted directories xdirs.
InitDir(ids, srcs, xdirs) ==
    /\ phase = "booting"
    /\ scan = 1
    /\ plugins = <<>>
    /\ db = <<>>
    /\ \E S \in SUBSET ids : files \in [S -> srcs]
    /\ stack = HostStack
    /\ last = Last("none", <<>>, FALSE, TRUE, "", <<>>, FALSE, 0, "", <<>>,
                   <<>>)
    /\ dirs \in SUBSET xdirs
    /\ temp = {}
    /\ input = <<>>
    /\ dbFailed = FALSE
    /\ now = 0
    /\ requests = <<>>
    /\ admitted = <<>>
    /\ reply = <<>>
    /\ flight = [c \in RaceCalls |-> IdleCall]
    /\ gen = "none"
    /\ life = NoLife

\* The same with no extracted directory.
InitWith(ids, srcs) == InitDir(ids, srcs, {})

Init == InitWith(BootIds, PluginSources)

\* loadAllPlugins: one iteration of the loop over the directory listing.
loadAllPlugins ==
    /\ phase = "booting"
    /\ scan <= Len(ScanOrder)
    /\ scan' = scan + 1
    /\ LET id == ScanOrder[scan] IN
       IF id \in DOMAIN files
       THEN \E dbOk \in BOOLEAN :
            \E r \in {loadPluginFromFile(plugins, db, files, id, dbOk)} :
                /\ plugins' = r.plugins
                /\ db' = r.db
                /\ last' = Last("load", id, FALSE, r.ok, r.err, r.calls,
                                r.dbw, 0, IF r.ok THEN "record" ELSE "null",
                                Lookup(plugins, id), <<>>)
                /\ dbFailed' = (dbFailed \/ (r.dbw /\ ~dbOk))
       ELSE UNCHANGED <<plugins, db, last, dbFailed>>
    /\ input' = <<>>
    /\ UNCHANGED rateVars
    /\ UNCHANGED raceVars
    /\ UNCHANGED <<phase, files, stack, dirs, temp>>

\* startServer after loadAllPlugins: registerPluginRoutes, loadRoutes,
\* listen.
startServer ==
    /\ phase = "booting"
    /\ scan > Len(ScanOrder)
    /\ stack' = loadRoutes(registerPluginRoutes(stack, plugins))
    /\ phase' = "running"
    /\ last' = Last("bind", <<>>, FALSE, TRUE, "", <<>>, FALSE, 0, "",
                    <<>>, <<>>)
    /\ input' = <<>>
    /\ UNCHANGED rateVars
    /\ UNCHANGED raceVars
    /\ UNCHANGED <<scan, plugins, db, files, dirs, temp, dbFailed>>

Letters ==
    {"a", "b", "c", "d", "e", "f", "g", "h", "i", "j", "k", "l", "m",
     "n", "o", "p", "q", "r", "s", "t", "u", "v", "w", "x", "y", "z",
     "A", "B", "C", "D", "E", "F", "G", "H", "I", "J", "K", "L", "M",
     "N", "O", "P", "Q", "R", "S", "T", "U", "V", "W", "X", "Y", "Z"}

\* name.replace(/[^a-z0-9_-]/gi, '-')
Slug(name) ==
    [i \in 1..Len(name) |->
        IF name[i] \in Letters \cup Digits \cup {"_", "-"}
        THEN name[i] ELSE "-"]

\* The identifier uploadPlugin derives from the uploaded file's name.
UploadId(name) == Slug(Basename(name, ExtPluginJs))

UploadNames == {PluginFile(id) : id \in OpIds}

ExtZip == <<".", "z", "i", "p">>

\* An uploaded file: its name and what it holds.  A file that is not an
\* archive holds a source (src); an archive may hold a plugin.yaml (yaml)
\* and an index.plugin.js (index).  Each is a sequence of at most one.
File(name, src, yaml, index) ==
    [name |-> name, src |-> src, yaml |-> yaml, index |-> index]

\* The uploads of a source file under one of these names.
SourceFiles(srcs) ==
    {File(name, <<src>>, <<>>, <<>>) : name \in UploadNames, src \in srcs}

\* The fields of a plugin.yaml read by the loader.
Manifest(name, version, dependencies) ==
    [name |-> name, version |-> version, dependencies |-> dependencies]

ManifestDeps == Manifest("Zed", VString(V100), "['other-plugin']")
ManifestNoVersion == Manifest("Zed", VUndefined, "undefined")
ManifestNoName == Manifest("undefined", VString(V100), "undefined")

\* generatePluginFromManifest: the source written for a manifest.  Its
\* init returns the static and views hints of the manifest (none here).
generatePluginFromManifest(manifest) ==
    Exporting([name |-> manifest.name, version |-> manifest.version,
               config |-> "{}",
               dependencies |-> OrElse(manifest.dependencies, "[]"),
               routes |-> "[]", init |-> "fn:ok", destroy |-> "fn:noop"])

\* The step of an upload that fails, if any: moving the file into the
\* scratch directory, copying it into the plugins directory, or the query
\* of savePluginToDB.
UploadFaults == {"none", "move", "copy", "query"}

\* The same, with the steps of an archive: opening it and writing the
\* generated source.
ZipFaults == UploadFaults \cup {"extract", "write"}

\* What the steps of an upload leave: the registry, the rows, the source
\* files and the extracted directories of the plugins directory, whether
\* the step returned (ok) or threw (err), and what the load it ran did.
Outcome(reg, rows, dir, xdirs, ok, err, calls, dbw, load) ==
    [plugins |-> reg, db |-> rows, files |-> dir, dirs |-> xdirs,
     ok |-> ok, err |-> err, calls |-> calls, dbw |-> dbw, load |-> load]

\* processSinglePlugin: copy the source to <id>.plugin.js, then load it.
\* The result of loadPluginFromFile is dropped, so the step returns
\* normally whenever the copy succeeded.
processSinglePlugin(reg, rows, dir, xdirs, id, src, fault) ==
    IF fault = "copy"
    THEN Outcome(reg, rows, dir, xdirs, FALSE, "copy failed", <<>>, FALSE,
                 "")
    ELSE LET copied == MapSet(dir, id, src)
             r == loadPluginFromFile(reg, rows, copied, id, fault # "query")
         IN Outcome(r.plugins, r.db, copied, xdirs, TRUE, r.err, r.calls,
                    r.dbw, IF r.ok THEN "record" ELSE "null")

\* processManifestPlugin writing the generated source before it checks
\* the manifest.
processManifestPlugin_WriteFirst(reg, rows, dir, xdirs, id, manifest, fault) ==
    IF fault = "write"
    THEN Outcome(reg, rows, dir, xdirs, FALSE, "write failed", <<>>, FALSE,
                 "")
    ELSE IF ~Truthy(manifest.name) \/ ~Truthy(manifest.version.t)
    THEN Outcome(reg, rows,
                 MapSet(dir, id, generatePluginFromManifest(manifest)),
                 xdirs, FALSE, "Manifest missing required fields", <<>>,
                 FALSE, "")
    ELSE Outcome(reg, rows,
                 MapSet(dir, id, generatePluginFromManifest(manifest)),
                 xdirs, TRUE, "", <<>>, FALSE, "")

\* processManifestPlugin: check the manifest, write the generated source
\* to <id>.plugin.js.  It does not call loadPluginFromFile.
processManifestPlugin(reg, rows, dir, xdirs, id, manifest, fault) ==
    IF ~Truthy(manifest.name) \/ ~Truthy(manifest.version.t)
    THEN Outcome(reg, rows, dir, xdirs, FALSE,
                 "Manifest missing required fields", <<>>, FALSE, "")
    ELSE IF fault = "write"
    THEN Outcome(reg, rows, dir, xdirs, FALSE, "write failed", <<>>, FALSE,
                 "")
    ELSE Outcome(reg, rows,
                 MapSet(dir, id, generatePluginFromManifest(manifest)),
                 xdirs, TRUE, "", <<>>, FALSE, "")

\* extractZipPlugin returning normally for an archive that holds neither
\* plugin.yaml nor index.plugin.js.
extractZipPlugin_EmptyOk(reg, rows, dir, xdirs, id, file, fault) ==
    IF fault = "extract"
    THEN Outcome(reg, rows, dir, xdirs, FALSE, "extract failed", <<>>,
                 FALSE, "")
    ELSE LET extracted == xdirs \cup {id} IN
         IF file.yaml # <<>>
         THEN processManifestPlugin(reg, rows, dir, extracted, id,
                                    file.yaml[1], fault)
         ELSE IF file.index # <<>>
         THEN processSinglePlugin(reg, rows, dir, extracted, id,
                                  file.index[1], fault)
         ELSE Outcome(reg, rows, dir, extracted, TRUE, "", <<>>, FALSE, "")

\* extractZipPlugin: open the archive (it throws on one it cannot read),
\* extract it to the directory <id> of the plugins directory, then take
\* plugin.yaml, else index.plugin.js, else throw.
extractZipPlugin(reg, rows, dir, xdirs, id, file, fault) ==
    IF fault = "extract"
    THEN Outcome(reg, rows, dir, xdirs, FALSE, "extract failed", <<>>,
                 FALSE, "")
    ELSE LET extracted == xdirs \cup {id} IN
         IF file.yaml # <<>>
         THEN processManifestPlugin(reg, rows, dir, extracted, id,
                                    file.yaml[1], fault)
         ELSE IF file.index # <<>>
         THEN processSinglePlugin(reg, rows, dir, extracted, id,
                                  file.index[1], fault)
         ELSE Outcome(reg, rows, dir, extracted, FALSE,
                      "No plugin manifest or main file found in zip", <<>>,
                      FALSE, "")

\* uuidv4(): the name of the scratch directory of an upload.
TempId == "temp/uuid"

\* fs.mkdir(dir, {recursive: true}) and fs.rm(dir, {recursive: true,
\* force: true}) on a set of directories.
fsMkdir(ds, d) == ds \cup {d}
fsRm_Keep(ds, d) == ds
fsRm(ds, d) == ds \ {d}

\* What is recorded of the latest upload: the name and kind of the file
\* and the step that was made to fail.
Uploaded(file, fault) ==
    <<[name |-> file.name, zip |-> EndsWith(file.name, ExtZip),
       yaml |-> file.yaml, index |-> file.index # <<>>, fault |-> fault]>>

\* uploadPlugin(file): the scratch directory is made, the file moved into
\* it, then an archive is extracted and processed and any other file is
\* processed as a source; the scratch directory is removed on both the
\* return and the catch path.
uploadPlugin(file, fault) ==
    /\ phase = "running"
    /\ LET id == UploadId(file.name) IN
       \E o \in {IF fault = "move"
                 THEN Outcome(plugins, db, files, dirs, FALSE, "move failed",
                              <<>>, FALSE, "")
                 ELSE IF EndsWith(file.name, ExtZip)
                 THEN extractZipPlugin(plugins, db, files, dirs, id, file,
                                       fault)
                 ELSE processSinglePlugin(plugins, db, files, dirs, id,
                                          file.src[1], fault)} :
          /\ plugins' = o.plugins
          /\ db' = o.db
          /\ files' = o.files
          /\ dirs' = o.dirs
          /\ temp' = fsRm(fsMkdir(temp, TempId), TempId)
          /\ last' = Last("upload", id, FALSE, o.ok, o.err, o.calls, o.dbw,
                          0, o.load, Lookup(plugins, id), <<>>)
          /\ dbFailed' = (dbFailed \/ (o.dbw /\ fault = "query"))
    /\ input' = Uploaded(file, fault)
    /\ UNCHANGED rateVars
    /\ UNCHANGED raceVars
    /\ UNCHANGED <<phase, scan, stack>>

\* togglePlugin calling destroy or init only when the flag changes.
ToggleCalls_TransitionOnly(plugin, enabled, dbOk) ==
    LET proc == IF enabled THEN plugin.init ELSE plugin.destroy
        name == IF enabled THEN "init" ELSE "destroy"
    IN IF ~dbOk THEN [ok |-> FALSE, err |-> "query failed", calls |-> <<>>]
       ELSE IF ~IsFunction(proc) \/ plugin.enabled = enabled
       THEN [ok |-> TRUE, err |-> "", calls |-> <<>>]
       ELSE IF proc = "fn:throws"
       THEN [ok |-> FALSE, err |-> name \o " threw", calls |-> <<name>>]
       ELSE [ok |-> TRUE, err |-> "", calls |-> <<name>>]

\* The outcome of the calls togglePlugin makes after it has written the
\* flag: the UPDATE (dbOk says whether it succeeds), then destroy when
\* enabled is false, or init when enabled is true.
ToggleCalls(plugin, enabled, dbOk) ==
    LET proc == IF enabled THEN plugin.init ELSE plugin.destroy
        name == IF enabled THEN "init" ELSE "destroy"
    IN IF ~dbOk THEN [ok |-> FALSE, err |-> "query failed", calls |-> <<>>]
       ELSE IF ~IsFunction(proc) THEN [ok |-> TRUE, err |-> "", calls |-> <<>>]
       ELSE IF proc = "fn:throws"
       THEN [ok |-> FALSE, err |-> name \o " threw", calls |-> <<name>>]
       ELSE [ok |-> TRUE, err |-> "", calls |-> <<name>>]

\* A flag write that also forgets the paths resolved at load.
SetEnabled_ResetPaths(plugin, enabled) ==
    [plugin EXCEPT !.enabled = enabled, !.staticPath = <<>>,
                   !.viewsPath = <<>>]

\* plugin.enabled = enabled
SetEnabled(plugin, enabled) == [plugin EXCEPT !.enabled = enabled]

\* togglePlugin(pluginId, enabled).  The flag is written first; a failing
\* query, destroy or init rejects the call with the flag already written.
togglePlugin(id, enabled, dbOk) ==
    /\ phase = "running"
    /\ IF id \notin DOMAIN plugins
       THEN /\ last' = Last("toggle", id, enabled, FALSE, "Plugin not found",
                            <<>>, FALSE, 0, "", <<>>, <<>>)
            /\ UNCHANGED <<plugins, db, dbFailed>>
       ELSE \E c \in {ToggleCalls(plugins[id], enabled, dbOk)} :
               /\ plugins' = [plugins EXCEPT ![id] = SetEnabled(@, enabled)]
               /\ db' = IF dbOk /\ id \in DOMAIN db
                        THEN [db EXCEPT ![id].enabled = enabled]
                        ELSE db
               /\ last' = Last("toggle", id, enabled, c.ok, c.err, c.calls,
                               TRUE, 0, "", <<plugins[id]>>,
                               IF enabled /\ last.op = "toggle"
                                  /\ last.id = id /\ ~last.arg
                               THEN last.was ELSE <<>>)
               /\ dbFailed' = (dbFailed \/ ~dbOk)
    /\ input' = <<>>
    /\ UNCHANGED rateVars
    /\ UNCHANGED raceVars
    /\ UNCHANGED <<phase, scan, files, stack, dirs, temp>>

\* deletePlugin(pluginId) once the identifier was found in the registry;
\* unlinkOk and dbOk say whether fs.unlink and the DELETE succeed.  A
\* throwing destroy rejects the call before anything is removed; a failing
\* unlink is logged; a failing DELETE rejects the call after the registry
\* entry and the file are gone.
DeleteFound(id, unlinkOk, dbOk) ==
    LET plugin == plugins[id]
        calls == IF IsFunction(plugin.destroy) THEN <<"destroy">> ELSE <<>>
    IN IF IsFunction(plugin.destroy) /\ plugin.destroy = "fn:throws"
       THEN /\ last' = Last("delete", id, FALSE, FALSE, "destroy threw",
                            calls, FALSE, 0, "", <<plugin>>, <<>>)
            /\ UNCHANGED <<plugins, db, files, dbFailed>>
       ELSE /\ plugins' = MapDelete(plugins, id)
            /\ files' = IF unlinkOk THEN MapDelete(files, id) ELSE files
            /\ db' = IF dbOk THEN MapDelete(db, id) ELSE db
            /\ last' = Last("delete", id, FALSE, dbOk,
                            IF dbOk THEN "" ELSE "query failed",
                            calls, TRUE, 0, "", <<plugin>>, <<>>)
            /\ dbFailed' = (dbFailed \/ ~dbOk)

\* deletePlugin looking the identifier up only after its DELETE.
deletePlugin_LateLookup(id, unlinkOk, dbOk) ==
    /\ phase = "running"
    /\ IF id \notin DOMAIN plugins
       THEN /\ db' = IF dbOk THEN MapDelete(db, id) ELSE db
            /\ last' = Last("delete", id, FALSE, FALSE, "Plugin not found",
                            <<>>, TRUE, 0, "", <<>>, <<>>)
            /\ UNCHANGED <<plugins, files, dbFailed>>
       ELSE DeleteFound(id, unlinkOk, dbOk)
    /\ input' = <<>>
    /\ UNCHANGED rateVars
    /\ UNCHANGED raceVars
    /\ UNCHANGED <<phase, scan, stack, dirs, temp>>

\* deletePlugin(pluginId)
deletePlugin(id, unlinkOk, dbOk) ==
    /\ phase = "running"
    /\ IF id \notin DOMAIN plugins
       THEN /\ last' = Last("delete", id, FALSE, FALSE, "Plugin not found",
                            <<>>, FALSE, 0, "", <<>>, <<>>)
            /\ UNCHANGED <<plugins, db, files, dbFailed>>
       ELSE DeleteFound(id, unlinkOk, dbOk)
    /\ input' = <<>>
    /\ UNCHANGED rateVars
    /\ UNCHANGED raceVars
    /\ UNCHANGED <<phase, scan, stack, dirs, temp>>

\* A request to a plugin route, dispatched through the host's stack.
Request(req) ==
    /\ phase = "running"
    /\ \E r \in {Dispatch(stack, req)} :
       last' = LastRequest(req, r, Lookup(plugins, req.id),
                           \E k \in 1..Len(stack) :
                               /\ stack[k].kind = "pluginRoute"
                               /\ Answers(stack[k], req))
    /\ input' = <<>>
    /\ UNCHANGED rateVars
    /\ UNCHANGED raceVars
    /\ UNCHANGED <<phase, scan, plugins, db, files, stack, dirs, temp,
                   dbFailed>>

\* The wrapper of the k-th layer of the stack called for a request of a
\* session user whose method and path match the binding.
CallWrapper(k, user) ==
    /\ phase = "running"
    /\ stack[k].kind = "pluginRoute"
    /\ LET layer == stack[k]
           req == [method |-> RouteMethod(layer.route), id |-> layer.id,
                   path |-> layer.route.path, user |-> user]
       IN \E r \in {Wrapper(layer, req)} :
          /\ last' = Last("wrapper", layer.id, TRUE, ~r.escaped,
                          IF r.escaped THEN "headers already sent" ELSE "",
                          IF r.invoked THEN <<"handler">> ELSE <<>>, FALSE,
                          r.status, "", Lookup(plugins, layer.id), <<>>)
          /\ input' = <<[route |-> layer.route, user |-> user]>>
    /\ UNCHANGED rateVars
    /\ UNCHANGED raceVars
    /\ UNCHANGED <<phase, scan, plugins, db, files, stack, dirs, temp,
                   dbFailed>>

Next ==
    \/ loadAllPlugins
    \/ startServer
    \/ \E file \in SourceFiles(PluginSources), fault \in UploadFaults :
            uploadPlugin(file, fault)
    \/ \E id \in OpIds, enabled, dbOk \in BOOLEAN : togglePlugin(id, enabled, dbOk)
    \/ \E id \in OpIds, unlinkOk, dbOk \in BOOLEAN :
            deletePlugin(id, unlinkOk, dbOk)
    \/ \E req \in Requests(OpIds) : Request(req)

Spec == Init /\ [][Next]_vars

\* The upload pipeline: the host starts, then files and archives are
\* uploaded, each step of an upload failing or not.
UploadZipNames == {id \o ExtZip : id \in OpIds}

ZipFiles ==
    {File(name, <<>>, yaml, index) :
        name \in UploadZipNames,
        yaml \in {<<>>, <<ManifestDeps>>, <<ManifestNoVersion>>,
                  <<ManifestNoName>>},
        index \in {<<>>, <<SrcHello>>, <<SrcNoName>>}}

UploadSources == {SrcHello, SrcNoName, SrcInitThrows}

NextUpload ==
    \/ loadAllPlugins
    \/ startServer
    \/ \E file \in SourceFiles(UploadSources) \cup ZipFiles,
          fault \in ZipFaults :
            uploadPlugin(file, fault)

\* The plugins directory holds some of the same sources when the host
\* starts.
InitUpload == Init /\ \A id \in DOMAIN files : files[id] \in UploadSources

SpecUpload == InitUpload /\ [][NextUpload]_vars

\* Two identifiers: sources for both may be in the plugins directory at
\* startup, and both are uploaded, toggled and deleted in any order, every
\* file and persistence call succeeding.
TwoSources == {SrcHello, SrcTools}

TwoFiles ==
    {File(PluginFile(id), <<src>>, <<>>, <<>>) :
        id \in Ids, src \in TwoSources}

InitTwo == InitWith(Ids, TwoSources)

NextTwo ==
    \/ loadAllPlugins
    \/ startServer
    \/ \E file \in TwoFiles : uploadPlugin(file, "none")
    \/ \E id \in Ids, enabled \in BOOLEAN : togglePlugin(id, enabled, TRUE)
    \/ \E id \in Ids : deletePlugin(id, TRUE, TRUE)

SpecTwo == InitTwo /\ [][NextTwo]_vars

\* The paths resolved at load: sources whose init returns relative,
\* absolute, parent-relative or no hints are loaded at startup and
\* uploaded, and the plugin is toggled.
HintSources == {SrcHello, SrcTools, SrcAbsHints, SrcUpHints, SrcInitThrows}

InitHints == InitWith(BootIds, HintSources)

NextHints ==
    \/ loadAllPlugins
    \/ startServer
    \/ \E file \in SourceFiles(HintSources), fault \in {"none", "query"} :
            uploadPlugin(file, fault)
    \/ \E id \in OpIds, enabled, dbOk \in BOOLEAN :
            togglePlugin(id, enabled, dbOk)

SpecHints == InitHints /\ [][NextHints]_vars

\* loadAllPlugins step by step.  The listing of the plugins directory
\* holds the source files and the extracted directories; each entry that
\* ends in .plugin.js is loaded, and a load goes through its steps one
\* at a time: phase says which step of the load of entry `scan` was done
\* last ("booting" between two loads).
ScanNames ==
    <<PluginFile(IdHello), UploadId(IdHello \o ExtZip), PluginFile(IdOther)>>

ScanSources ==
    {SrcHello, SrcTools, SrcInitThrows, SrcBadVersion, SrcRequireFs,
     SrcFunction}

\* Whether the directory holds an entry of that name.
Listed(name) ==
    \/ EndsWith(name, ExtPluginJs)
        /\ Basename(name, ExtPluginJs) \in DOMAIN files
    \/ name \in dirs

InitScan == InitDir(Ids, ScanSources, {UploadId(IdHello \o ExtZip)})

\* The identifier of the entry being loaded.
ScanId == Basename(ScanNames[scan], ExtPluginJs)

\* A step of a load ends the load: loadPluginFromFile returns null and
\* the loop goes to the next entry.
LoadReturnsNull(err, calls) ==
    /\ phase' = "booting"
    /\ scan' = scan + 1
    /\ last' = Last("load", ScanId, FALSE, FALSE, err, calls, FALSE, 0,
                    "null", Lookup(plugins, ScanId), <<>>)

\* An entry that is absent or does not end in .plugin.js is passed over.
ScanSkip ==
    /\ phase = "booting" /\ scan <= Len(ScanNames)
    /\ ~(Listed(ScanNames[scan]) /\ EndsWith(ScanNames[scan], ExtPluginJs))
    /\ scan' = scan + 1
    /\ UNCHANGED rateVars
    /\ UNCHANGED raceVars
    /\ UNCHANGED <<phase, plugins, db, files, stack, last, dirs, temp, input,
                   dbFailed>>

\* The script is run in the sandbox and its export is checked.
LoadExecute ==
    /\ phase = "booting" /\ scan <= Len(ScanNames)
    /\ Listed(ScanNames[scan]) /\ EndsWith(ScanNames[scan], ExtPluginJs)
    /\ IF RunInContext(files[ScanId]) = "threw"
       THEN LoadReturnsNull("module is not allowed", <<>>)
       ELSE IF ~Truthy(PluginData(files[ScanId]).v)
               \/ ~IsObjectType(PluginData(files[ScanId]).v)
       THEN LoadReturnsNull("must export an object", <<>>)
       ELSE phase' = "executed" /\ UNCHANGED <<scan, last>>
    /\ UNCHANGED rateVars
    /\ UNCHANGED raceVars
    /\ UNCHANGED <<plugins, db, files, stack, dirs, temp, input, dbFailed>>

\* A validation failure that leaves the loop over the directory.
LoadValidate_AbortScan ==
    /\ phase = "executed"
    /\ \E err \in {validatePlugin(PluginData(files[ScanId]).d)} :
        IF err # ""
        THEN /\ phase' = "booting"
             /\ scan' = Len(ScanNames) + 1
             /\ last' = Last("load", ScanId, FALSE, FALSE, err, <<>>, FALSE,
                             0, "null", Lookup(plugins, ScanId), <<>>)
        ELSE phase' = "validated" /\ UNCHANGED <<scan, last>>
    /\ UNCHANGED rateVars
    /\ UNCHANGED raceVars
    /\ UNCHANGED <<plugins, db, files, stack, dirs, temp, input, dbFailed>>

\* validatePlugin
LoadValidate ==
    /\ phase = "executed"
    /\ \E err \in {validatePlugin(PluginData(files[ScanId]).d)} :
        IF err # ""
        THEN LoadReturnsNull(err, <<>>)
        ELSE phase' = "validated" /\ UNCHANGED <<scan, last>>
    /\ UNCHANGED rateVars
    /\ UNCHANGED raceVars
    /\ UNCHANGED <<plugins, db, files, stack, dirs, temp, input, dbFailed>>

\* The record is built and its init awaited.
LoadInitialize ==
    /\ phase = "validated"
    /\ \E plugin \in {PluginInstance(ScanId, PluginData(files[ScanId]).d)} :
        IF IsFunction(plugin.init) /\ plugin.init = "fn:throws"
        THEN LoadReturnsNull("init threw", <<"init">>)
        ELSE /\ phase' = "initialized"
             /\ last' = Last("init", ScanId, FALSE, TRUE, "",
                             IF IsFunction(plugin.init) THEN <<"init">>
                             ELSE <<>>, FALSE, 0, "",
                             Lookup(plugins, ScanId), <<>>)
             /\ UNCHANGED scan
    /\ UNCHANGED rateVars
    /\ UNCHANGED raceVars
    /\ UNCHANGED <<plugins, db, files, stack, dirs, temp, input, dbFailed>>

\* The record registered before init is awaited.
LoadPut_BeforeInit ==
    /\ phase = "validated"
    /\ plugins' = MapSet(plugins, ScanId,
                         PluginInstance(ScanId, PluginData(files[ScanId]).d))
    /\ phase' = "validated"
    /\ UNCHANGED rateVars
    /\ UNCHANGED raceVars
    /\ UNCHANGED <<scan, db, files, stack, last, dirs, temp, input, dbFailed>>

\* global.plugins.set(pluginId, plugin), the hints of init resolved.
LoadPut ==
    /\ phase = "initialized"
    /\ \E plugin \in {PluginInstance(ScanId, PluginData(files[ScanId]).d)} :
       \E hints \in {IF IsFunction(plugin.init) THEN InitResult(plugin.init)
                     ELSE InitResult("none")} :
        plugins' = MapSet(plugins, ScanId,
                          [plugin EXCEPT
                             !.staticPath = ResolveHint(hints.staticPath),
                             !.viewsPath = ResolveHint(hints.viewsPath)])
    /\ phase' = "put"
    /\ UNCHANGED rateVars
    /\ UNCHANGED raceVars
    /\ UNCHANGED <<scan, db, files, stack, last, dirs, temp, input, dbFailed>>

\* savePluginToDB(plugin); loadPluginFromFile returns the record.
LoadUpsert ==
    /\ phase = "put"
    /\ \E dbOk \in BOOLEAN :
        /\ db' = savePluginToDB(db, plugins[ScanId], dbOk)
        /\ dbFailed' = (dbFailed \/ ~dbOk)
    /\ phase' = "booting"
    /\ scan' = scan + 1
    /\ last' = Last("load", ScanId, FALSE, TRUE, "", last.calls, TRUE, 0,
                    "record", <<>>, <<>>)
    /\ UNCHANGED rateVars
    /\ UNCHANGED raceVars
    /\ UNCHANGED <<plugins, files, stack, dirs, temp, input>>

NextScan ==
    \/ ScanSkip
    \/ LoadExecute
    \/ LoadValidate
    \/ LoadInitialize
    \/ LoadPut
    \/ LoadUpsert

SpecScan == InitScan /\ [][NextScan]_vars

\* The host's views.  The registry's values are taken in insertion
\* order, which is the order of the startup scan here.
RegisteredList(reg) == SelectSeq(ScanOrder, LAMBDA id : id \in DOMAIN reg)

\* Array.from(global.plugins.values()) without the filter.
EnabledList_All(reg) == RegisteredList(reg)

\* Array.from(global.plugins.values()).filter(p => p.enabled), as the
\* identifiers of the records kept.
EnabledList(reg) ==
    SelectSeq(RegisteredList(reg), LAMBDA id : reg[id].enabled)

\* What a view answers: its status and the plugins it hands to the
\* template (rendered says whether it hands a list at all).
Rendered(status, list) == [status |-> status, rendered |-> TRUE, list |-> list]
NotRendered(status) == [status |-> status, rendered |-> FALSE, list |-> <<>>]

\* isAuthenticated: a request without session user is redirected.
\* GET /features, /dashboard, /plugins and /plugins/:pluginId
ViewHandler(view, id, user, reg) ==
    IF view = "features" THEN Rendered(200, EnabledList(reg))
    ELSE IF view = "dashboard"
    THEN IF user = "none" THEN NotRendered(302)
         ELSE Rendered(200, EnabledList(reg))
    ELSE IF view = "plugins" THEN Rendered(200, EnabledList(reg))
    ELSE IF id \notin DOMAIN reg \/ ~reg[id].enabled
    THEN NotRendered(404)
    ELSE Rendered(200, <<id>>)

Views == {"features", "dashboard", "plugins", "plugin"}

\* The position of the first layer of a kind in the stack (0 for none).
FirstLayer(app, kind) ==
    IF \E k \in 1..Len(app) : app[k].kind = kind
    THEN CHOOSE k \in 1..Len(app) :
            /\ app[k].kind = kind
            /\ \A m \in 1..(k - 1) : app[m].kind # kind
    ELSE 0

\* Whether a layer of kind a is in the stack and no layer of kind b
\* precedes it.
Reaches(app, a, b) ==
    /\ FirstLayer(app, a) > 0
    /\ (FirstLayer(app, b) = 0 \/ FirstLayer(app, a) < FirstLayer(app, b))

\* What is recorded of a view request: the view, the user, what was
\* answered, and res.locals.plugins if the locals middleware ran.
Viewed(view, user, r, localsRan, reg) ==
    <<[view |-> view, user |-> user, rendered |-> r.rendered,
       list |-> r.list, localsRan |-> localsRan,
       locals |-> IF localsRan THEN EnabledList(reg) ELSE <<>>]>>

\* A view's handler called for a request, as express calls it when the
\* request reaches the host's routes.
CallView(view, id, user) ==
    /\ phase = "running"
    /\ \E r \in {ViewHandler(view, id, user, plugins)} :
        /\ last' = Last("view", id, FALSE, TRUE, "", <<>>, FALSE, r.status,
                        "", Lookup(plugins, id), <<>>)
        /\ input' = Viewed(view, user, r, TRUE, plugins)
    /\ UNCHANGED rateVars
    /\ UNCHANGED raceVars
    /\ UNCHANGED <<phase, scan, plugins, db, files, stack, dirs, temp,
                   dbFailed>>

\* A GET of a view dispatched through the host's stack: the locals
\* middleware, then the first of the catch-all 404 handler and the
\* host's routes.
HostView(view, id, user) ==
    /\ phase = "running"
    /\ \E r \in {IF Reaches(stack, "mainRoutes", "notFound")
                  THEN ViewHandler(view, id, user, plugins)
                  ELSE NotRendered(404)} :
        /\ last' = Last("hostview", id, FALSE, TRUE, "", <<>>, FALSE,
                        r.status, "", Lookup(plugins, id), <<>>)
        /\ input' = Viewed(view, user, r,
                           Reaches(stack, "locals", "notFound"), plugins)
    /\ UNCHANGED rateVars
    /\ UNCHANGED raceVars
    /\ UNCHANGED <<phase, scan, plugins, db, files, stack, dirs, temp,
                   dbFailed>>

ViewSources == {SrcHello, SrcNoName}

InitViews == InitWith(Ids, ViewSources)

NextViews ==
    \/ loadAllPlugins
    \/ startServer
    \/ \E id \in Ids, enabled \in BOOLEAN : togglePlugin(id, enabled, TRUE)
    \/ \E view \in Views, id \in Ids, user \in {"none", "user"} :
            CallView(view, id, user)
    \/ \E view \in Views, id \in Ids, user \in {"none", "user"} :
            HostView(view, id, user)

SpecViews == InitViews /\ [][NextViews]_vars

\* rateLimit(maxRequests, windowMs) of the authentication middleware.
MaxRequests == 2
WindowMs == 2

\* The clock is followed up to this time.
MaxTime == 5

Ips == {"a", "b"}

\* while (userRequests.length > 0 && userRequests[0] < now - windowMs)
\*     userRequests.shift();
RECURSIVE Prune(_, _)
Prune(userRequests, t) ==
    IF Len(userRequests) > 0 /\ userRequests[1] < t - WindowMs
    THEN Prune(Tail(userRequests), t)
    ELSE userRequests

\* The limit test with > in place of >=.
Limited_Above(userRequests) == Len(userRequests) > MaxRequests

\* if (userRequests.length >= maxRequests)
Limited(userRequests) == Len(userRequests) >= MaxRequests

\* The entries the cleanup deletes: those that are empty or whose last
\* time is before now - windowMs.
Idle(reqs, t) ==
    {key \in DOMAIN reqs :
        \/ Len(reqs[key]) = 0
        \/ reqs[key][Len(reqs[key])] < t - WindowMs}

\* requests.delete(key) for every idle entry.
Cleanup(reqs, t) == [key \in DOMAIN reqs \ Idle(reqs, t) |-> reqs[key]]

\* The time passes.
Tick ==
    /\ now < MaxTime
    /\ now' = now + 1
    /\ UNCHANGED <<requests, admitted, reply>>
    /\ UNCHANGED raceVars
    /\ UNCHANGED <<phase, scan, plugins, db, files, stack, last, dirs, temp,
                   input, dbFailed>>

\* The middleware handles a request of address ip; lucky says whether
\* Math.random() < 0.01.
rateLimit(ip, lucky) ==
    /\ \E userRequests \in
            {Prune(IF ip \in DOMAIN requests THEN requests[ip] ELSE <<>>,
                   now)} :
        IF Limited(userRequests)
        THEN /\ requests' = MapSet(requests, ip, userRequests)
             /\ reply' = [ip |-> ip, status |-> 429, next |-> FALSE,
                          deleted |-> {}]
             /\ UNCHANGED admitted
        ELSE \E pushed \in {MapSet(requests, ip, Append(userRequests, now))} :
             /\ requests' = IF lucky THEN Cleanup(pushed, now) ELSE pushed
             /\ reply' = [ip |-> ip, status |-> 0, next |-> TRUE,
                          deleted |-> IF lucky THEN Idle(pushed, now) ELSE {}]
             /\ admitted' =
                    MapSet(admitted, ip,
                           Append(IF ip \in DOMAIN admitted
                                  THEN admitted[ip] ELSE <<>>, now))
    /\ UNCHANGED now
    /\ UNCHANGED raceVars
    /\ UNCHANGED <<phase, scan, plugins, db, files, stack, last, dirs, temp,
                   input, dbFailed>>

InitRate == InitWith({}, {})

NextRate ==
    \/ Tick
    \/ \E ip \in Ips, lucky \in BOOLEAN : rateLimit(ip, lucky)

SpecRate == InitRate /\ [][NextRate]_vars

\* The /plugin-static/:pluginId middleware: the request is handed to
\* express.static(plugin.staticPath) when the registry holds a record for
\* the identifier whose staticPath is truthy, and to the next handler
\* otherwise.
pluginStatic(reg, id) ==
    IF id \in DOMAIN reg /\ reg[id].staticPath # <<>>
    THEN [served |-> TRUE, root |-> reg[id].staticPath]
    ELSE [served |-> FALSE, root |-> <<>>]

\* A request under /plugin-static/{id}; the middleware is the first layer
\* of the stack that matches it.
StaticRequest(id) ==
    /\ phase = "running"
    /\ FirstLayer(stack, "pluginStatic") = 1
    /\ \E r \in {pluginStatic(plugins, id)} :
        /\ last' = Last("static", id, r.served, TRUE, "", <<>>, FALSE, 0, "",
                        Lookup(plugins, id), <<>>)
        /\ input' = <<[root |-> r.root]>>
    /\ UNCHANGED rateVars
    /\ UNCHANGED raceVars
    /\ UNCHANGED <<phase, scan, plugins, db, files, stack, dirs, temp,
                   dbFailed>>

\* The host serving: plugins with and without a static directory are
\* loaded at startup, uploaded, toggled and deleted, every file and
\* persistence call succeeding, and requests are made to the static
\* middleware, to the host's stack and to the bound wrappers.
ServeSources == {SrcHello, SrcStatic}

InitServe == InitWith(BootIds, ServeSources)

NextServe ==
    \/ loadAllPlugins
    \/ startServer
    \/ \E file \in SourceFiles(ServeSources) : uploadPlugin(file, "none")
    \/ \E id \in OpIds, enabled \in BOOLEAN : togglePlugin(id, enabled, TRUE)
    \/ \E id \in OpIds : deletePlugin(id, TRUE, TRUE)
    \/ \E id \in OpIds : StaticRequest(id)
    \/ \E req \in Requests(OpIds) : Request(req)
    \/ \E k \in 1..Len(stack), user \in Users : CallWrapper(k, user)

SpecServe == InitServe /\ [][NextServe]_vars

\* togglePlugin, deletePlugin and uploadPlugin of one identifier, followed
\* from await to await.  The code between two awaits runs without
\* interruption; at an await any other call may run.
RaceId == IdHello

RaceSources == {SrcHello}

\* The host once startServer has run with the source file of RaceId in
\* the plugins directory, every persistence call having succeeded.
Started(src) ==
    loadPluginFromFile(<<>>, <<>>, [x \in {RaceId} |-> src], RaceId, TRUE)

InitRace ==
    \E src \in RaceSources :
        /\ phase = "running"
        /\ scan = Len(ScanOrder) + 1
        /\ plugins = Started(src).plugins
        /\ db = Started(src).db
        /\ files = [x \in {RaceId} |-> src]
        /\ stack = loadRoutes(registerPluginRoutes(HostStack,
                                                   Started(src).plugins))
        /\ last = Last("bind", <<>>, FALSE, TRUE, "", <<>>, FALSE, 0, "",
                       <<>>, <<>>)
        /\ dirs = {}
        /\ temp = {}
        /\ input = <<>>
        /\ dbFailed = FALSE
        /\ now = 0
        /\ requests = <<>>
        /\ admitted = <<>>
        /\ reply = <<>>
        /\ flight = [c \in RaceCalls |-> IdleCall]
        /\ gen = "boot"
        /\ life = [NoLife EXCEPT !.last["boot"] = "init"]

\* A procedure of the object ref is invoked.
Invoke(l, ref, proc) ==
    [l EXCEPT !.last[ref] = proc, !.late = @ \/ (ref \in l.deleted)]

\* The call c moves to position pc.
At(c, pc) == [flight EXCEPT ![c].pc = pc]

\* The call c ends; ok is FALSE when it throws.
Ended(c, ok) == [flight EXCEPT ![c].pc = "done", ![c].ok = ok]

\* The variables the followed calls never touch.
RaceFrame ==
    /\ UNCHANGED rateVars
    /\ UNCHANGED <<phase, scan, stack, last, dirs, temp, input>>

\* togglePlugin up to its first await: the lookup, the flag written on
\* the record found, the UPDATE sent.
ToggleStart(c, enabled) ==
    /\ phase = "running"
    /\ flight[c].pc = "idle"
    /\ IF RaceId \notin DOMAIN plugins
       THEN /\ flight' = [Ended(c, FALSE) EXCEPT ![c].arg = enabled]
            /\ UNCHANGED plugins
       ELSE /\ plugins' = [plugins EXCEPT ![RaceId] = SetEnabled(@, enabled)]
            /\ flight' = [flight EXCEPT ![c] =
                            [pc |-> "update", arg |-> enabled, ref |-> gen,
                             rec |-> <<plugins[RaceId]>>, ok |-> TRUE,
                             during |-> FALSE]]
    /\ UNCHANGED <<db, files, dbFailed, gen, life>>
    /\ RaceFrame

\* The UPDATE resolves or rejects; when it resolved, destroy or init of
\* the record looked up at the start is invoked.
ToggleUpdate(c, dbOk) ==
    /\ flight[c].pc = "update"
    /\ \E r \in {ToggleCalls(flight[c].rec[1], flight[c].arg, dbOk)} :
        /\ db' = IF dbOk /\ RaceId \in DOMAIN db
                 THEN [db EXCEPT ![RaceId].enabled = flight[c].arg]
                 ELSE db
        /\ life' = IF r.calls # <<>>
                   THEN Invoke(life, flight[c].ref, r.calls[1])
                   ELSE life
        /\ flight' = IF r.ok /\ r.calls # <<>>
                     THEN At(c, "called") ELSE Ended(c, r.ok)
    /\ dbFailed' = (dbFailed \/ ~dbOk)
    /\ UNCHANGED <<plugins, files, gen>>
    /\ RaceFrame

\* The awaited destroy or init has settled: togglePlugin returns.
ToggleReturn(c) ==
    /\ flight[c].pc = "called"
    /\ flight' = Ended(c, TRUE)
    /\ UNCHANGED <<plugins, db, files, dbFailed, gen, life>>
    /\ RaceFrame

\* deletePlugin up to its first await: the lookup and the call of
\* destroy.
DeleteStart(c) ==
    /\ phase = "running"
    /\ flight[c].pc = "idle"
    /\ IF RaceId \notin DOMAIN plugins
       THEN flight' = Ended(c, FALSE) /\ UNCHANGED life
       ELSE /\ life' = IF IsFunction(plugins[RaceId].destroy)
                       THEN Invoke(life, gen, "destroy") ELSE life
            /\ flight' =
                IF plugins[RaceId].destroy = "fn:throws"
                THEN Ended(c, FALSE)
                ELSE [flight EXCEPT ![c] =
                        [pc |-> "destroyed", arg |-> FALSE, ref |-> gen,
                         rec |-> <<plugins[RaceId]>>, ok |-> TRUE,
                         during |-> FALSE]]
    /\ UNCHANGED <<plugins, db, files, dbFailed, gen>>
    /\ RaceFrame

\* global.plugins.delete(pluginId), then fs.unlink is started.
DeleteRemove(c) ==
    /\ flight[c].pc = "destroyed"
    /\ plugins' = MapDelete(plugins, RaceId)
    /\ gen' = "none"
    /\ life' = [life EXCEPT !.deleted =
                    @ \cup (IF RaceId \in DOMAIN plugins THEN {gen} ELSE {})]
    /\ flight' = At(c, "unlink")
    /\ UNCHANGED <<db, files, dbFailed>>
    /\ RaceFrame

\* fs.unlink(plugin.filePath) has removed the file, then the DELETE is
\* sent.
DeleteUnlink(c) ==
    /\ flight[c].pc = "unlink"
    /\ files' = MapDelete(files, UploadId(flight[c].rec[1].filePath))
    /\ flight' = At(c, "query")
    /\ UNCHANGED <<plugins, db, dbFailed, gen, life>>
    /\ RaceFrame

\* DELETE FROM plugins WHERE id = $1 has run: deletePlugin returns.
DeleteQuery(c) ==
    /\ flight[c].pc = "query"
    /\ db' = MapDelete(db, RaceId)
    /\ flight' = Ended(c, TRUE)
    /\ UNCHANGED <<plugins, files, dbFailed, gen, life>>
    /\ RaceFrame

\* The upload of a source file up to the end of fs.copyFile in
\* processSinglePlugin.
UploadCopy(c, src) ==
    /\ phase = "running"
    /\ flight[c].pc = "idle"
    /\ files' = MapSet(files, RaceId, src)
    /\ flight' = At(c, "copied")
    /\ UNCHANGED <<plugins, db, dbFailed, gen, life>>
    /\ RaceFrame

\* loadPluginFromFile from the end of fs.readFile to the call of init:
\* the source is evaluated and validated, the record built and its init
\* invoked.
UploadRead(c) ==
    /\ flight[c].pc = "copied"
    /\ \E r \in {loadPluginFromFile(<<>>, <<>>, files, RaceId, TRUE)} :
        /\ life' = IF r.calls # <<>> THEN Invoke(life, "upload", "init")
                   ELSE life
        /\ flight' = IF r.ok
                     THEN [flight EXCEPT ![c] =
                            [pc |-> "init", arg |-> FALSE, ref |-> "upload",
                             rec |-> <<r.plugins[RaceId]>>, ok |-> TRUE,
                             during |-> FALSE]]
                     ELSE Ended(c, TRUE)
    /\ UNCHANGED <<plugins, db, files, dbFailed, gen>>
    /\ RaceFrame

\* init has settled: global.plugins.set(pluginId, plugin), then the query
\* of savePluginToDB is sent.
UploadSet(c) ==
    /\ flight[c].pc = "init"
    /\ plugins' = MapSet(plugins, RaceId, flight[c].rec[1])
    /\ gen' = flight[c].ref
    /\ flight' = At(c, "save")
    /\ UNCHANGED <<db, files, dbFailed, life>>
    /\ RaceFrame

\* Whether a deletePlugin is suspended at one of its awaits.
DeleteSuspended ==
    \E d \in RaceCalls : flight[d].pc \in {"destroyed", "unlink", "query"}

\* The query of savePluginToDB has run: the load and the upload return.
UploadSave(c) ==
    /\ flight[c].pc = "save"
    /\ db' = savePluginToDB(db, flight[c].rec[1], TRUE)
    /\ flight' = [Ended(c, TRUE) EXCEPT ![c].during = DeleteSuspended]
    /\ UNCHANGED <<plugins, files, dbFailed, gen, life>>
    /\ RaceFrame

NextRace ==
    \/ \E c \in {"toggleA", "toggleB"}, enabled \in BOOLEAN :
            ToggleStart(c, enabled)
    \/ \E c \in {"toggleA", "toggleB"}, dbOk \in BOOLEAN : ToggleUpdate(c, dbOk)
    \/ \E c \in {"toggleA", "toggleB"} : ToggleReturn(c)
    \/ DeleteStart("delete")
    \/ DeleteRemove("delete")
    \/ DeleteUnlink("delete")
    \/ DeleteQuery("delete")
    \/ \E src \in RaceSources : UploadCopy("upload", src)
    \/ UploadRead("upload")
    \/ UploadSet("upload")
    \/ UploadSave("upload")

SpecRace == InitRace /\ [][NextRace]_vars

\* The route binder on its own: the host starts, plugins are toggled, and
\* the bound wrappers are called directly.
NextBinder ==
    \/ loadAllPlugins
    \/ startServer
    \/ \E id \in OpIds, enabled, dbOk \in BOOLEAN :
            togglePlugin(id, enabled, dbOk)
    \/ \E k \in 1..Len(stack), user \in Users : CallWrapper(k, user)

SpecBinder == Init /\ [][NextBinder]_vars

----------------------------------------------------------------------------
(* Properties *)

\* loadPluginFromFile ran in the latest operation.
LoadRan == last.load # "" /\ last.id \in DOMAIN files

\* The source evaluated by the latest load.
LoadedSource == files[last.id]

\* The descriptor handed to validatePlugin by a load of src, if the load
\* got that far.
ReachesValidation(src) ==
    /\ RunInContext(src) = "done"
    /\ Truthy(PluginData(src).v) /\ IsObjectType(PluginData(src).v)

\* The failures of validation: name or version missing, version not
\* matching ^\d+\.\d+\.\d+$, dependencies or routes present and not a
\* sequence.
FailsValidation(d) ==
    \/ ~Truthy(d.name)
    \/ ~Truthy(d.version.t)
    \/ ~versionRegex(d.version.s)
    \/ Truthy(d.dependencies) /\ ~IsArray(d.dependencies)
    \/ Truthy(d.routes) /\ ~IsArray(d.routes)

\* C1: a load whose descriptor fails validation returns no record, calls
\* no initialize, leaves the registry and the store as they were and issues
\* no persistence write.
C1_AtomicRejection ==
    [][(/\ last'.load # ""
        /\ last'.id \in DOMAIN files'
        /\ ReachesValidation(files'[last'.id])
        /\ FailsValidation(PluginData(files'[last'.id]).d))
       => (/\ last'.load = "null"
           /\ last'.calls = <<>>
           /\ ~last'.dbw
           /\ plugins' = plugins
           /\ db' = db)]_vars

\* C1 witness: an upload over a registered identifier was rejected by
\* validation and the registered record is still there.
C1_Witness ==
    /\ LoadRan /\ last.op = "upload" /\ last.load = "null"
    /\ ReachesValidation(LoadedSource)
    /\ FailsValidation(PluginData(LoadedSource).d)
    /\ last.was # <<>> /\ Lookup(plugins, last.id) = last.was

\* C2: a load whose source calls the gated require with a blocklisted
\* module name fails and creates no record, whatever the source does with
\* the error.
C2_BlockedRequireFailsLoad ==
    (LoadRan /\ LoadedSource.req \in blocked)
        => (last.load = "null" /\ Lookup(plugins, last.id) = last.was)

\* The sources that export an object: module.exports assigned an object,
\* or fields set on `exports`.
ExportsObject(src) == src.moduleExports = "{descriptor}" \/ src.exportsSet

\* C3: a load whose source runs to its end registers a plugin only if the
\* source exported an object; a source that exports nothing or a
\* non-object fails with 'Plugin must export an object' and no registry
\* entry, and fields set on `exports` count as an exported object.
C3_InvalidExportRejected ==
    (LoadRan /\ RunInContext(LoadedSource) = "done")
        => IF ExportsObject(LoadedSource)
           THEN last.err # "must export an object"
           ELSE /\ last.load = "null"
                /\ last.err = "must export an object"
                /\ Lookup(plugins, last.id) = last.was

\* C4: togglePlugin and deletePlugin on an identifier absent from the
\* registry fail with 'Plugin not found', leave the registry, the store
\* and the plugins directory untouched and call no plugin procedure.
C4_AbsentIdUntouched ==
    [][(last'.op \in {"toggle", "delete"} /\ last'.id \notin DOMAIN plugins)
       => (/\ ~last'.ok
           /\ last'.err = "Plugin not found"
           /\ last'.calls = <<>>
           /\ ~last'.dbw
           /\ plugins' = plugins
           /\ db' = db
           /\ files' = files)]_vars

\* C4 witness: a delete of an absent identifier whose row and source file
\* are still there.
C4_Witness ==
    /\ last.op = "delete" /\ last.err = "Plugin not found"
    /\ last.id \in DOMAIN db /\ last.id \in DOMAIN files

\* The fields of a record other than the enabled flag.
Descriptor(plugin) == [plugin EXCEPT !.enabled = TRUE]

\* C5: a toggle changes no field of the record but the enabled flag, and
\* after a disable followed by an enable the record's fields other than
\* the flag are those it had before the two calls.
C5_ToggleKeepsDescriptor ==
    (last.op = "toggle" /\ last.was # <<>>)
        => /\ last.id \in DOMAIN plugins
           /\ Descriptor(plugins[last.id]) = Descriptor(last.was[1])
           /\ plugins[last.id].enabled = last.arg
           /\ last.pair # <<>> =>
                Descriptor(plugins[last.id]) = Descriptor(last.pair[1])

\* C5 witness: an enable right after a disable, of a record with a
\* resolved static path and a configuration of its own.
C5_Witness ==
    /\ last.op = "toggle" /\ last.arg /\ last.ok /\ last.pair # <<>>
    /\ last.pair[1].staticPath # <<>> /\ last.pair[1].config = "{greeting}"

Called(proc) == \E i \in 1..Len(last.calls) : last.calls[i] = proc

\* C6 as claimed: destroy is called only on a transition from enabled to
\* disabled, init only on a transition from disabled to enabled.
C6_OnlyOnTransition ==
    (last.op = "toggle" /\ last.was # <<>>)
        => /\ Called("destroy") => (last.was[1].enabled /\ ~last.arg)
           /\ Called("init") => (~last.was[1].enabled /\ last.arg)

\* C6 amended: destroy is called only by togglePlugin(id, false) and init
\* only by togglePlugin(id, true); and once the persistence update has
\* succeeded the procedure of the requested state is called, whatever the
\* flag was before.
C6_ByRequestedState ==
    (last.op = "toggle")
        => /\ Called("destroy") => ~last.arg
           /\ Called("init") => last.arg
           /\ (last.was # <<>> /\ last.err # "query failed") =>
                IF last.arg
                THEN IsFunction(last.was[1].init) => last.calls = <<"init">>
                ELSE IsFunction(last.was[1].destroy) =>
                        last.calls = <<"destroy">>

\* C6 witness: a disable of a record that was already disabled called
\* destroy.
C6_Witness ==
    /\ last.op = "toggle" /\ ~last.arg /\ last.was # <<>>
    /\ ~last.was[1].enabled /\ last.calls = <<"destroy">>

\* C7: togglePlugin(id, false) on a registered plugin returns the record
\* with enabled = false, also when destroy throws.
C7_DisableAlwaysSucceeds ==
    (/\ last.op = "toggle" /\ ~last.arg /\ last.was # <<>>
     /\ last.err # "query failed")
        => (last.ok /\ ~plugins[last.id].enabled)

\* C8: after deletePlugin of a registered identifier the identifier is in
\* neither the registry nor the store, also when destroy throws or the
\* file removal fails.
C8_DeleteCompletes ==
    (last.op = "delete" /\ last.was # <<>> /\ last.err # "query failed")
        => (last.id \notin DOMAIN plugins /\ last.id \notin DOMAIN db)

\* The stack holds a binding for a route of a plugin.
Bound(app, id, route) ==
    \E k \in 1..Len(app) : app[k] = Layer("pluginRoute", id, route)

\* C9: once the host is running, every enabled record has each of its
\* routes with a function handler bound in the dispatch table.
C9_EnabledRoutesBound ==
    phase = "running" =>
        \A id \in DOMAIN plugins :
            plugins[id].enabled =>
                \A i \in 1..Len(RoutesOf(plugins[id].routes)) :
                    IsFunction(RoutesOf(plugins[id].routes)[i].handler)
                        => Bound(stack, id, RoutesOf(plugins[id].routes)[i])

WrapperCalled == last.op = "wrapper"
CalledRoute == input[1].route
CalledUser == input[1].user

\* C11: for every bound route and every request the wrapper answers 401
\* without invoking the handler when the route requires a session and the
\* request has no session user; otherwise 403 without invoking the handler
\* when the route requires the admin role and the user is absent or not an
\* admin; otherwise it invokes the handler.
C11_GatesInOrder ==
    WrapperCalled =>
        IF CalledRoute.authenticated /\ CalledUser = "none"
        THEN last.status = 401 /\ ~Called("handler")
        ELSE IF CalledRoute.admin /\ CalledUser # "admin"
        THEN last.status = 403 /\ ~Called("handler")
        ELSE Called("handler")

\* C11 witness: a route requiring both a session and the admin role was
\* called without a session user and answered 401.
C11_Witness ==
    /\ WrapperCalled
    /\ CalledRoute.authenticated /\ CalledRoute.admin
    /\ CalledUser = "none"
    /\ last.status = 401 /\ ~Called("handler")

\* C12: a handler that throws or rejects is answered with 500 and no
\* error leaves the wrapper.
C12_HandlerFaultsContained ==
    (WrapperCalled /\ Called("handler")
        /\ CalledRoute.handler \in {"fn:throws", "fn:rejects", "fn:late"})
    => (last.status = 500 /\ last.ok)

\* The latest operation was an upload; what was uploaded.
UploadRan == last.op = "upload"
UploadedZip == input[1].zip
NoFault == input[1].fault = "none"

\* An archive with neither plugin.yaml nor index.plugin.js that could be
\* moved into the scratch directory and opened.
EmptyZipUploaded ==
    /\ UploadRan /\ UploadedZip
    /\ input[1].yaml = <<>> /\ ~input[1].index
    /\ input[1].fault \notin {"move", "extract"}

C14_ScratchRemoved == UploadRan => TempId \notin temp

\* C14 witness: an upload whose archive could not be opened has returned
\* and the scratch directory is gone.
C14_Witness ==
    /\ UploadRan /\ UploadedZip /\ input[1].fault = "extract"
    /\ ~last.ok /\ last.err = "extract failed"
    /\ temp = {}

\* Nothing of an identifier is in the plugins directory or the registry.
NothingOf(id, reg, dir, xdirs) ==
    id \notin DOMAIN dir /\ id \notin xdirs /\ id \notin DOMAIN reg

\* A loadable source of the identifier is in the plugins directory and
\* the identifier is registered.
Installed(id, reg, dir) ==
    /\ id \in DOMAIN dir
    /\ loadPluginFromFile(<<>>, <<>>, dir, id, TRUE).ok
    /\ id \in DOMAIN reg

\* C15: an upload for an identifier of which nothing exists ends with
\* the identifier installed (loadable source and registered) or with
\* nothing of it left behind.
C15_NoPartialInstall ==
    [][(last'.op = "upload"
        /\ NothingOf(last'.id, plugins, files, dirs))
       => (\/ Installed(last'.id, plugins', files')
           \/ NothingOf(last'.id, plugins', files', dirs'))]_vars

\* C16: uploadPlugin returns success only if loadPluginFromFile ran on
\* the resulting source and returned a record, the identifier being
\* registered; and whenever that load fails it returns failure.
C16_SuccessMeansLoaded ==
    UploadRan =>
        /\ last.ok => (last.load = "record" /\ last.id \in DOMAIN plugins)
        /\ last.load = "null" => ~last.ok

\* C17: the upload of an archive whose plugin.yaml declares dependencies
\* that are never loaded succeeds and the plugin is registered when the
\* upload returns.
C17_AdvisoryDependencies ==
    (UploadRan /\ UploadedZip /\ NoFault
        /\ input[1].yaml = <<ManifestDeps>>)
    => (last.ok /\ last.id \in DOMAIN plugins)

\* The record a load of the identifier's source file creates when nothing
\* is registered.
FreshRecord(id) == loadPluginFromFile(<<>>, <<>>, files, id, TRUE).plugins[id]

\* A load of an identifier that was registered returned a record.
Reloaded ==
    /\ last.op \in {"load", "upload"}
    /\ last.load = "record"
    /\ last.was # <<>>

\* C18: after a successful load of an identifier that was already
\* registered, the registry holds for it the record of this load alone:
\* every field is the one a load into an empty registry gives, and the
\* enabled flag is true whatever it was.
C18_LastLoadWins ==
    Reloaded =>
        /\ last.id \in DOMAIN plugins
        /\ plugins[last.id] = FreshRecord(last.id)
        /\ plugins[last.id].enabled

\* C18 witness: a disabled record was replaced by the record of another
\* descriptor.
C18_Witness ==
    /\ Reloaded
    /\ ~last.was[1].enabled
    /\ last.was[1].name # plugins[last.id].name
    /\ last.was[1].routes # plugins[last.id].routes

\* C19: as long as every persistence call has succeeded, an identifier
\* has a row iff it is registered, and the row's enabled flag is the
\* record's.
C19_StoreMirrorsRegistry ==
    ~dbFailed =>
        /\ DOMAIN db = DOMAIN plugins
        /\ \A id \in DOMAIN plugins : db[id].enabled = plugins[id].enabled

C21_PersistFailureOnlyLogged ==
    [][(~dbFailed /\ dbFailed' /\ last'.op \in {"load", "upload"})
       => /\ last'.load = "record" /\ last'.ok
          /\ last'.calls = <<"init">>
          /\ last'.id \in DOMAIN plugins'
          /\ plugins'[last'.id].enabled
          /\ db' = db]_vars

\* C21 witness: a startup load ran init, its write failed, and the record
\* is registered and enabled without a row.
C21_Witness ==
    /\ dbFailed /\ last.op = "load" /\ last.load = "record"
    /\ Called("init")
    /\ last.id \in DOMAIN plugins /\ plugins[last.id].enabled
    /\ last.id \notin DOMAIN db

\* The latest load reached the call of an init procedure that throws.
InitThrewInLoad ==
    /\ LoadRan
    /\ ReachesValidation(LoadedSource)
    /\ ~FailsValidation(PluginData(LoadedSource).d)
    /\ PluginData(LoadedSource).d.init = "fn:throws"

\* C22: a load whose init throws still goes on and the plugin ends up
\* loaded in the registry.
C22_InitFailureNonFatal ==
    InitThrewInLoad =>
        /\ last.load = "record"
        /\ last.id \in DOMAIN plugins

\* C27: a request whose method and path match a route bound for a plugin
\* is dispatched to the plugin's wrapper, not answered by the catch-all
\* 404 handler.
C27_BoundRoutesReachable ==
    (last.op = "request" /\ last.arg)
    => (last.status # 404)

\* The hints returned by the init of the source of the latest load.
LoadedHints ==
    InitResult(OrElse(PluginData(LoadedSource).d.init, "fn:noop"))

\* The segments of a hint that name something: not "", not ".".
Named(hint) == SelectSeq(hint, LAMBDA seg : seg \notin {"", "."})

\* The path resolved for a hint is null when there is none, and the join
\* of the plugins directory and the hint otherwise; for a hint that does
\* not climb with "..", absolute or not, it is the plugins directory
\* followed by the hint's segments.
ResolvedFrom(path, hint) ==
    IF hint = <<>> THEN path = <<>>
    ELSE /\ path = pathJoin(PluginsDir, hint)
         /\ (\A i \in 1..Len(hint) : hint[i] # "..")
                => path = PluginsDir \o Named(hint)

\* C23: after a load that returned a record, the record's staticPath and
\* viewsPath are resolved from the hints its init returned, relative to
\* the directory of the plugin's source file.
C23_HintsResolvedInPluginDir ==
    (LoadRan /\ last.load = "record") =>
        /\ ResolvedFrom(plugins[last.id].staticPath, LoadedHints.staticPath)
        /\ ResolvedFrom(plugins[last.id].viewsPath, LoadedHints.viewsPath)

\* C23 witness: a plugin whose init returned an absolute static hint and
\* no views hint was loaded.
C23_Witness ==
    /\ LoadRan /\ last.load = "record"
    /\ LoadedHints.staticPath = <<"", "srv", "assets">>
    /\ plugins[last.id].staticPath = <<"", "app", "plugins", "srv", "assets">>
    /\ plugins[last.id].viewsPath = <<>>

\* A file name without its extension (.plugin.js or .zip).
StripExtension(name) ==
    IF EndsWith(name, ExtPluginJs)
    THEN SubSeq(name, 1, Len(name) - Len(ExtPluginJs))
    ELSE IF EndsWith(name, ExtZip)
    THEN SubSeq(name, 1, Len(name) - Len(ExtZip))
    ELSE name

\* A name with every character other than a letter, digit, underscore or
\* hyphen removed.
KeepIdChars(name) ==
    SelectSeq(name, LAMBDA ch : ch \in Letters \cup Digits \cup {"_", "-"})

\* C24: the identifier of an upload is the file name with its extension
\* stripped and the characters other than letters, digits, underscores
\* and hyphens removed; it holds only such characters; and a source the
\* upload registered is registered under it.
C24_IdIsStrippedName ==
    UploadRan =>
        /\ last.id = KeepIdChars(StripExtension(input[1].name))
        /\ \A i \in 1..Len(last.id) :
                last.id[i] \in Letters \cup Digits \cup {"_", "-"}
        /\ last.load = "record" => last.id \in DOMAIN plugins

\* The latest upload was an archive, moved and opened, whose plugin.yaml
\* lacks name or version.
BadManifestUploaded ==
    /\ UploadRan /\ UploadedZip
    /\ input[1].yaml # <<>>
    /\ (~Truthy(input[1].yaml[1].name)
        \/ ~Truthy(input[1].yaml[1].version.t))
    /\ input[1].fault \notin {"move", "extract"}

\* C25: the upload of an archive whose manifest lacks name or version
\* fails with the manifest error, writes no source file to the plugins
\* directory and registers nothing.
C25_BadManifestRejected ==
    [][BadManifestUploaded'
       => /\ ~last'.ok
          /\ last'.err = "Manifest missing required fields"
          /\ files' = files
          /\ plugins' = plugins /\ db' = db
          /\ last'.load = ""]_vars

\* C25 witness: a manifest without a name was uploaded and rejected, no
\* source file of the identifier exists and it is not registered.
C25_Witness ==
    /\ BadManifestUploaded
    /\ ~Truthy(input[1].yaml[1].name)
    /\ ~last.ok
    /\ last.id \notin DOMAIN files /\ last.id \notin DOMAIN plugins

\* C26: the steps of a load come in the order execute, validate,
\* initialize, registry put, persistence upsert: the registry changes only
\* in the step that follows a completed initialize, by the record of the
\* file being loaded, and the rows change only in the step that follows
\* the registry put.
C26_LoadStepOrder ==
    [][/\ phase' = "executed" => phase = "booting"
       /\ phase' = "validated" => phase = "executed"
       /\ phase' = "initialized" => phase = "validated"
       /\ phase' = "put" => phase = "initialized"
       /\ plugins' # plugins
            => /\ phase = "initialized" /\ phase' = "put"
               /\ last.op = "init" /\ last.ok /\ last.id = ScanId
               /\ DOMAIN plugins' = DOMAIN plugins \cup {ScanId}
       /\ db' # db
            => /\ phase = "put"
               /\ ScanId \in DOMAIN plugins
               /\ DOMAIN db' = DOMAIN db \cup {ScanId}]_vars

\* C26 witness: a load is between its registry put and its upsert: the
\* record is registered after its init was called, and has no row yet.
C26_Witness ==
    /\ phase = "put"
    /\ ScanId \in DOMAIN plugins /\ ScanId \notin DOMAIN db
    /\ last.op = "init" /\ Called("init")

\* The scan of the directory is over.
ScanDone == phase = "booting" /\ scan > Len(ScanNames)

\* C28: after the scan, the registered identifiers are exactly those of
\* the .plugin.js files whose own load succeeds, each with the record of
\* its own load, whatever happened to the other files; no entry that
\* does not end in .plugin.js was loaded.
C28_ScanIsolatesFailures ==
    ScanDone =>
        /\ \A id \in DOMAIN files :
            loadPluginFromFile(<<>>, <<>>, files, id, TRUE).ok
                => (id \in DOMAIN plugins /\ plugins[id] = FreshRecord(id))
        /\ \A id \in DOMAIN plugins :
            /\ id \in DOMAIN files
            /\ loadPluginFromFile(<<>>, <<>>, files, id, TRUE).ok
        /\ \A name \in dirs : name \notin DOMAIN plugins

\* C28 witness: the first file failed validation, the directory entry was
\* passed over, and the last file is registered.
C28_Witness ==
    /\ ScanDone
    /\ IdHello \in DOMAIN files /\ files[IdHello] = SrcBadVersion
    /\ IdHello \notin DOMAIN plugins
    /\ dirs # {}
    /\ IdOther \in DOMAIN plugins

\* The identifiers of a list.
InList(list) == {list[i] : i \in 1..Len(list)}

\* The identifiers registered with enabled true.
EnabledIds == {id \in DOMAIN plugins : plugins[id].enabled}

ViewRan == last.op \in {"view", "hostview"}

\* C29: res.locals.plugins holds exactly the enabled records; a list
\* rendered by /features, /dashboard or /plugins holds exactly the
\* enabled records; GET /plugins/{id} answers 404 when the identifier is
\* not registered or disabled and renders no other plugin.
C29_ViewsShowEnabledOnly ==
    ViewRan =>
        /\ input[1].localsRan => InList(input[1].locals) = EnabledIds
        /\ (input[1].rendered /\ input[1].view # "plugin")
                => InList(input[1].list) = EnabledIds
        /\ input[1].view = "plugin" =>
            /\ last.id \notin EnabledIds => last.status = 404
            /\ InList(input[1].list) \subseteq {last.id} \cap EnabledIds

\* C29 witness: with one plugin enabled and one disabled, /plugins
\* rendered the enabled one alone.
C29_Witness ==
    /\ last.op = "view" /\ input[1].view = "plugins" /\ input[1].rendered
    /\ IdHello \in DOMAIN plugins /\ ~plugins[IdHello].enabled
    /\ IdOther \in DOMAIN plugins /\ plugins[IdOther].enabled
    /\ input[1].list = <<IdOther>>

\* The number of requests of an address passed on at a time in lo..hi.
AdmittedIn(ip, lo, hi) ==
    IF ip \in DOMAIN admitted
    THEN Cardinality({i \in 1..Len(admitted[ip]) :
                        admitted[ip][i] >= lo /\ admitted[ip][i] <= hi})
    ELSE 0

\* The times an address holds in the map.
Held(reqs, ip) ==
    IF ip \in DOMAIN reqs THEN {reqs[ip][i] : i \in 1..Len(reqs[ip])} ELSE {}

\* C30: with a clock that never goes back, at most maxRequests requests
\* of one address are passed on within any window of length windowMs; a
\* rejected request is answered 429 and leaves no time behind; the
\* cleanup deletes no entry that holds a time inside the current window.
C30_RateLimited ==
    /\ [](\A ip \in Ips, t \in 0..MaxTime :
            AdmittedIn(ip, t, t + WindowMs) <= MaxRequests)
    /\ [][reply' # reply \/ requests' # requests \/ admitted' # admitted =>
            /\ reply'.next = (admitted' # admitted)
            /\ ~reply'.next =>
                /\ reply'.status = 429
                /\ Held(requests', reply'.ip) \subseteq Held(requests, reply'.ip)
            /\ \A ip \in Ips :
                (ip \in reply'.deleted \/
                 (ip \in DOMAIN requests /\ ip \notin DOMAIN requests')) =>
                    \A t \in Held(requests, ip) : t < now - WindowMs]_vars

\* C30 witness: an address that was passed on maxRequests times inside
\* the current window is rejected.
C30_Witness ==
    /\ reply # <<>> /\ reply.status = 429 /\ ~reply.next
    /\ AdmittedIn(reply.ip, now - WindowMs, now) = MaxRequests
    /\ \E ip \in Ips : AdmittedIn(ip, 0, MaxTime) > MaxRequests

\* The cleanup has deleted the idle entry of another address.
C30_CleanupRan ==
    /\ reply # <<>> /\ reply.next /\ reply.deleted # {}
    /\ reply.ip \notin reply.deleted

\* C32: a togglePlugin call that fails with an error leaves the enabled
\* flag of the registry record as it was before the call.
C32_FailedToggleKeepsFlag ==
    (last.op = "toggle" /\ ~last.ok /\ last.was # <<>>) =>
        /\ last.id \in DOMAIN plugins
        /\ plugins[last.id].enabled = last.was[1].enabled

\* The record a load of src as the source file of id registers, if the
\* load succeeds.
LoadsAs(id, src, record) ==
    \E r \in {loadPluginFromFile(<<>>, <<>>, [x \in {id} |-> src], id, TRUE)} :
        r.ok /\ r.plugins[id] = record

\* C36: when the upload of a source file for a registered identifier
\* fails to load, the registry record is unchanged and the source file on
\* disk is still one the registered record is loaded from.
C36_FailedUploadKeepsPrevious ==
    (UploadRan /\ ~UploadedZip /\ last.load = "null" /\ last.was # <<>>) =>
        /\ last.id \in DOMAIN plugins
        /\ plugins[last.id] = last.was[1]
        /\ last.id \in DOMAIN files
        /\ LoadsAs(last.id, files[last.id], plugins[last.id])

\* let loadedCount = 0; ... loadedCount++ for every listed file that ends
\* in .plugin.js, once its load has returned.
loadedCount ==
    Cardinality({i \in 1..(scan - 1) : ScanOrder[i] \in DOMAIN files})

\* C37: the count loadAllPlugins returns equals the number of plugin
\* files the scan registered.
C37_CountIsRegistered ==
    (phase = "booting" /\ scan > Len(ScanOrder)) =>
        loadedCount = Cardinality(DOMAIN plugins)

\* C35: a bound wrapper invokes a handler only for an identifier that is
\* in the registry, and the route it serves is one of the routes of the
\* record the registry holds.
C35_BindingsFollowRegistry ==
    (last.op = "wrapper" /\ Called("handler")) =>
        /\ last.was # <<>>
        /\ \E i \in 1..Len(RoutesOf(last.was[1].routes)) :
                RoutesOf(last.was[1].routes)[i] = CalledRoute

\* C38: a request under /plugin-static/{id} is handed to the static
\* directory only when the registry holds an enabled record for id with a
\* resolved staticPath.
C38_StaticOnlyWhileEnabled ==
    (last.op = "static" /\ last.arg) =>
        /\ last.was # <<>>
        /\ last.was[1].enabled
        /\ last.was[1].staticPath # <<>>
        /\ input[1].root = last.was[1].staticPath

\* No followed call is between its start and its end.
Quiet == \A c \in RaceCalls : flight[c].pc \in {"idle", "done"}

\* C31: whenever no lifecycle operation on a registered plugin is in
\* flight, its record is enabled iff the latest of the init and destroy
\* invocations on that record was init.
C31_FlagMatchesLifecycle ==
    (Quiet /\ RaceId \in DOMAIN plugins /\ gen \in Objects) =>
        (plugins[RaceId].enabled <=> (life.last[gen] = "init"))

\* C33: once deletePlugin has removed a record from the registry, neither
\* init nor destroy of that record is invoked again.
C33_NoLifecycleAfterDelete == ~life.late

\* C34: when a load of the identifier has completed while a deletePlugin
\* was suspended at an await, the record it registered, its source file
\* and its row survive the delete; and when every call has finished the
\* registry holds the identifier iff its row exists.
C34_DeleteOnlyWhatItLookedUp ==
    Quiet =>
        /\ (RaceId \in DOMAIN plugins) <=> (RaceId \in DOMAIN db)
        /\ flight["upload"].during =>
            /\ RaceId \in DOMAIN plugins /\ gen = "upload"
            /\ RaceId \in DOMAIN files
            /\ RaceId \in DOMAIN db

====
